---- MODULE Spec2Model ----
(***************************************************************************)
(* A model of TelegramFileUploader (src/main.py).                          *)
(*                                                                         *)
(* Representation of Python values:                                        *)
(*   str   a sequence of one-character strings, "ab" is <<"a", "b">>;      *)
(*   None  the distinguished sequence None below (TLC cannot compare       *)
(*         values of different types, so None is given the type of the     *)
(*         strings it stands beside; no Python string equals it because    *)
(*         its only element is not one character);                         *)
(*   int   for message and peer ids: an arbitrary-precision natural, the   *)
(*         little-endian sequence of its base-2^16 limbs without leading   *)
(*         zero limbs (0 is <<>>), as TLC's own integers are 32 bits wide; *)
(*         for the parsed API_ID: a TLC integer;                           *)
(*   list  a sequence.                                                     *)
(***************************************************************************)
EXTENDS Integers, Sequences, FiniteSets, TLC

\* ------------------------------------------------------------------ bounds

\* Longest raw string drawn for an environment value or for the --files values.
MaxLen == 3
\* Most values given to --files in one invocation.
MaxArgs == 2
\* Most messages the grouped send returns.
MaxMsgs == 2

\* ----------------------------------------------------------------- strings

None == <<"<None>">>

\* Python truthiness of an Optional[str]: None and "" are falsy.
Truthy(s) == s # None /\ s # <<>>

\* The characters str.strip() removes, those of str.isspace(): the space, "\t", "\n", "\r", "\f", the vertical tab (0x0B) and the four
\* separators 0x1C to 0x1F, written here as the characters themselves. The
\* spaces beyond ASCII (0x85, 0xA0, U+2028, ...) are whitespace too; a string
\* here holds none of them.
Whitespace == {" ", "\t", "\n", "\r", "\f", "", "", "", "", ""}

\* The line boundaries of str.splitlines(): "\n", "\r", "\f", the vertical tab
\* (0x0B) and the separators 0x1C, 0x1D, 0x1E (not 0x1F); "\r\n" counts as one
\* boundary. Beyond ASCII, 0x85, U+2028 and U+2029 are boundaries too; a string
\* here holds none of them.
LineBreaks == {"\n", "\r", "\f", "", "", "", ""}

\* The characters int() skips around the literal of a string of ASCII
\* characters: the space, "\t", "\n", "\r", "\f" and the vertical tab (0x0B).
\* The separators 0x1C to 0x1F are not skipped: int() raises ValueError on them.
IntWhitespace == {" ", "\t", "\n", "\r", "\f", ""}

RECURSIVE LStrip(_)
LStrip(s) ==
    IF s # <<>> /\ Head(s) \in Whitespace THEN LStrip(Tail(s)) ELSE s

RECURSIVE RStrip(_)
RStrip(s) ==
    IF s # <<>> /\ s[Len(s)] \in Whitespace
    THEN RStrip(SubSeq(s, 1, Len(s) - 1))
    ELSE s

\* str.strip()
Strip(s) == RStrip(LStrip(s))

\* splitlines that knows "\n" and "\r\n" only and takes no other character
\* for a line boundary.
RECURSIVE SplitFromNewlineOnly(_, _, _)
SplitFromNewlineOnly(s, i, start) ==
    IF i > Len(s)
    THEN IF start <= Len(s) THEN <<SubSeq(s, start, Len(s))>> ELSE <<>>
    ELSE IF s[i] = "\r" /\ i < Len(s) /\ s[i + 1] = "\n"
    THEN <<SubSeq(s, start, i - 1)>> \o SplitFromNewlineOnly(s, i + 2, i + 2)
    ELSE IF s[i] = "\n"
    THEN <<SubSeq(s, start, i - 1)>> \o SplitFromNewlineOnly(s, i + 1, i + 1)
    ELSE SplitFromNewlineOnly(s, i + 1, start)

\* str.splitlines() from position i, the current line having started at start:
\* a line is closed by each boundary (and may be empty); what follows the last
\* boundary is a line only when it is not empty.
RECURSIVE SplitFrom(_, _, _)
SplitFrom(s, i, start) ==
    IF i > Len(s)
    THEN IF start <= Len(s) THEN <<SubSeq(s, start, Len(s))>> ELSE <<>>
    ELSE IF s[i] = "\r" /\ i < Len(s) /\ s[i + 1] = "\n"
    THEN <<SubSeq(s, start, i - 1)>> \o SplitFrom(s, i + 2, i + 2)
    ELSE IF s[i] \in LineBreaks
    THEN <<SubSeq(s, start, i - 1)>> \o SplitFrom(s, i + 1, i + 1)
    ELSE SplitFrom(s, i + 1, start)

SplitLines(s) == SplitFrom(s, 1, 1)

\* ---------------------------------------------------------------- integers

Digits == <<"0", "1", "2", "3", "4", "5", "6", "7", "8", "9">>

DigitChars == {Digits[i] : i \in 1..10}

DigitValue(c) == (CHOOSE i \in 1..10 : Digits[i] = c) - 1

\* The body of an integer literal after the sign: digits, single underscores
\* allowed between two digits only.
IsIntBody(b) ==
    /\ b # <<>>
    /\ \A i \in 1..Len(b) : b[i] \in DigitChars \cup {"_"}
    /\ b[1] # "_"
    /\ b[Len(b)] # "_"
    /\ \A i \in 1..(Len(b) - 1) : ~(b[i] = "_" /\ b[i + 1] = "_")

Unsigned(t) == IF t # <<>> /\ Head(t) \in {"+", "-"} THEN Tail(t) ELSE t

RECURSIVE LSkip(_)
LSkip(s) ==
    IF s # <<>> /\ Head(s) \in IntWhitespace THEN LSkip(Tail(s)) ELSE s

RECURSIVE RSkip(_)
RSkip(s) ==
    IF s # <<>> /\ s[Len(s)] \in IntWhitespace
    THEN RSkip(SubSeq(s, 1, Len(s) - 1))
    ELSE s

\* What int() reads of s: s without the whitespace int() skips on both sides.
Skip(s) == RSkip(LSkip(s))

\* Whether int(s) succeeds (base 10); otherwise it raises ValueError.
IsInt(s) == IsIntBody(Unsigned(Skip(s)))

RECURSIVE BodyValue(_)
BodyValue(b) ==
    IF b = <<>> THEN 0
    ELSE IF b[Len(b)] = "_" THEN BodyValue(SubSeq(b, 1, Len(b) - 1))
    ELSE 10 * BodyValue(SubSeq(b, 1, Len(b) - 1)) + DigitValue(b[Len(b)])

\* int(s) for a string that IsInt accepts.
IntOf(s) ==
    LET t == Skip(s)
    IN  IF t # <<>> /\ Head(t) = "-"
        THEN 0 - BodyValue(Unsigned(t))
        ELSE BodyValue(Unsigned(t))

\* Arbitrary-precision naturals: little-endian limbs in base 2^16.
LimbBase == 2 ^ 16

\* Quotient and remainder of a limb sequence by 10, from the most significant
\* limb down: carry is the remainder brought in from the limbs above.
RECURSIVE DivLimbs(_, _)
DivLimbs(n, carry) ==
    IF n = <<>> THEN [q |-> <<>>, r |-> carry]
    ELSE LET cur == carry * LimbBase + n[Len(n)]
             rest == DivLimbs(SubSeq(n, 1, Len(n) - 1), cur % 10)
         IN  [q |-> rest.q \o <<cur \div 10>>, r |-> rest.r]

RECURSIVE Normalize(_)
Normalize(n) ==
    IF n # <<>> /\ n[Len(n)] = 0
    THEN Normalize(SubSeq(n, 1, Len(n) - 1))
    ELSE n

RECURSIVE StrPos(_)
StrPos(n) ==
    IF n = <<>> THEN <<>>
    ELSE LET d == DivLimbs(n, 0)
         IN  StrPos(Normalize(d.q)) \o <<Digits[d.r + 1]>>

\* str(n), as an f-string renders an int: plain decimal, every digit kept.
Str(n) == IF n = <<>> THEN <<"0">> ELSE StrPos(n)

\* ---------------------------------------------------------- pure functions

\* What a call ends in: a returned value, exit(code), or a raised exception.
Returned(v) == [kind |-> "return", code |-> 0, exc |-> "", diag |-> "", value |-> v]

Exited(code, diag) ==
    [kind |-> "exit", code |-> code, exc |-> "", diag |-> diag, value |-> <<>>]

Raised(exc) == [kind |-> "raise", code |-> 0, exc |-> exc, diag |-> "", value |-> <<>>]

\* validate_env with BOT_TOKEN tested before API_HASH.
validate_env_token_first(e) ==
    IF ~Truthy(e.API_ID) THEN Exited(1, "API_ID is missing")
    ELSE IF ~IsInt(e.API_ID) THEN Raised("ValueError")
    ELSE IF ~Truthy(e.BOT_TOKEN) THEN Exited(1, "BOT_TOKEN is missing")
    ELSE IF ~Truthy(e.API_HASH) THEN Exited(1, "API_HASH is missing")
    ELSE Returned([api_id |-> IntOf(e.API_ID), api_hash |-> e.API_HASH,
                   bot_token |-> e.BOT_TOKEN])

\* validate_env with the failure of int() caught and turned into exit(1).
validate_env_catching(e) ==
    IF ~Truthy(e.API_ID) THEN Exited(1, "API_ID is missing")
    ELSE IF ~IsInt(e.API_ID) THEN Exited(1, "API_ID is missing")
    ELSE IF ~Truthy(e.API_HASH) THEN Exited(1, "API_HASH is missing")
    ELSE IF ~Truthy(e.BOT_TOKEN) THEN Exited(1, "BOT_TOKEN is missing")
    ELSE Returned([api_id |-> IntOf(e.API_ID), api_hash |-> e.API_HASH,
                   bot_token |-> e.BOT_TOKEN])

\* validate_env(): the three keys are read and tested in turn; int(api_id) runs
\* as soon as API_ID is known to be there, before API_HASH is read.
validate_env(e) ==
    IF ~Truthy(e.API_ID) THEN Exited(1, "API_ID is missing")
    ELSE IF ~IsInt(e.API_ID) THEN Raised("ValueError")
    ELSE IF ~Truthy(e.API_HASH) THEN Exited(1, "API_HASH is missing")
    ELSE IF ~Truthy(e.BOT_TOKEN) THEN Exited(1, "BOT_TOKEN is missing")
    ELSE Returned([api_id |-> IntOf(e.API_ID), api_hash |-> e.API_HASH,
                   bot_token |-> e.BOT_TOKEN])

\* "https://t.me/"
TMe == <<"h", "t", "t", "p", "s", ":", "/", "/", "t", ".", "m", "e", "/">>

PeerChannel(n) == [cls |-> "PeerChannel", channel_id |-> n]
PeerChat(n) == [cls |-> "PeerChat", chat_id |-> n]
PeerUser(n) == [cls |-> "PeerUser", user_id |-> n]

\* build_message_url branching on the peer first: the alias is used for a
\* channel only.
build_message_url_tag_first(peer_id, message_id, chat_username) ==
    IF peer_id.cls = "PeerChannel"
    THEN IF Truthy(chat_username)
         THEN TMe \o chat_username \o <<"/">> \o Str(message_id)
         ELSE TMe \o <<"c", "/">> \o Str(peer_id.channel_id) \o <<"/">>
                  \o Str(message_id)
    ELSE IF peer_id.cls = "PeerChat"
    THEN TMe \o <<"c", "/">> \o Str(peer_id.chat_id) \o <<"/">> \o Str(message_id)
    ELSE TMe \o <<"c", "/">> \o Str(peer_id.user_id) \o <<"/">> \o Str(message_id)

build_message_url(peer_id, message_id, chat_username) ==
    IF Truthy(chat_username)
    THEN TMe \o chat_username \o <<"/">> \o Str(message_id)
    ELSE IF peer_id.cls = "PeerChannel"
    THEN TMe \o <<"c", "/">> \o Str(peer_id.channel_id) \o <<"/">> \o Str(message_id)
    ELSE IF peer_id.cls = "PeerChat"
    THEN TMe \o <<"c", "/">> \o Str(peer_id.chat_id) \o <<"/">> \o Str(message_id)
    ELSE TMe \o <<"c", "/">> \o Str(peer_id.user_id) \o <<"/">> \o Str(message_id)

\* [arg.strip() for arg in file_arg.splitlines() if arg.strip()]
RECURSIVE StripNonEmpty(_)
StripNonEmpty(lines) ==
    IF lines = <<>> THEN <<>>
    ELSE IF Strip(Head(lines)) # <<>>
    THEN <<Strip(Head(lines))>> \o StripNonEmpty(Tail(lines))
    ELSE StripNonEmpty(Tail(lines))

RECURSIVE process_files_arg(_)
process_files_arg(files) ==
    IF files = <<>> THEN <<>>
    ELSE StripNonEmpty(SplitLines(Head(files))) \o process_files_arg(Tail(files))

\* [None for i in range(n)]
RECURSIVE Nones(_)
Nones(n) == IF n <= 0 THEN <<>> ELSE <<None>> \o Nones(n - 1)

\* message_list of main: a None for each uploaded file but one, then the message.
CaptionList(uploaded_files, message) ==
    Nones(Len(uploaded_files) - 1) \o <<message>>

\* A variant that joins the parts with nothing between them.
RECURSIVE JoinNoSeparator(_)
JoinNoSeparator(parts) ==
    IF parts = <<>> THEN <<>>
    ELSE parts[1] \o JoinNoSeparator(Tail(parts))

\* ",".join(parts)
RECURSIVE Join(_)
Join(parts) ==
    IF parts = <<>> THEN <<>>
    ELSE IF Len(parts) = 1 THEN parts[1]
    ELSE parts[1] \o <<",">> \o Join(Tail(parts))

\* -------------------------------------------------------------------- state

VARIABLES
    environ,          \* os.environ: API_ID, API_HASH, BOT_TOKEN, GITHUB_OUTPUT
    argv,             \* the command line: --to, --message, --files as given
    args,             \* the namespace parse_args returns, files normalised
    pc,               \* where async_main (and main inside it) stands
    creds,            \* what validate_env returned
    events,           \* every client call, return and failure, in order
    uploaded_files,   \* main: the handles upload_file returned so far
    sent_messages,    \* main: what send_file returned, as a list
    chat_username,    \* main: the resolved alias, or None
    result,           \* async_main: <<UploadResult>> once main returned, else <<>>
    pending,          \* the exception main raised, held while finally runs
    stdout,           \* the lines printed
    sink,             \* the lines of the file GITHUB_OUTPUT names
    outcome           \* how the process ended, once it has

vars == <<environ, argv, args, pc, creds, events, uploaded_files, sent_messages,
          chat_username, result, pending, stdout, sink, outcome>>

\* args.files when --files was not given: None, in the type of a list of strings.
NoFiles == <<None>>

\* Python truthiness of args.files: None and [] are falsy.
TruthyList(l) == l # NoFiles /\ l # <<>>

Line(text, arg) == [text |-> text, arg |-> arg]

Running == [kind |-> "running", code |-> 0, exc |-> ""]

\* upload_file answers with a handle; the client numbers its handles, so each
\* differs from every other of the run.
Handle(path, n) == [name |-> path, n |-> n]

NoHandle == Handle(None, 0)

\* One entry of the client's log. k is "call", "ret" or "err".
Ev(k, op) ==
    [k |-> k, op |-> op, path |-> None, entity |-> None, files |-> <<>>,
     caption |-> <<>>, handle |-> NoHandle, list |-> TRUE, msgs |-> <<>>, exc |-> ""]

\* ------------------------------------------------- the external client's answers

StartErrors == {"ConnectionError"}
UploadErrors == {"FileNotFoundError", "FilePartsInvalidError"}
SendErrors == {"ValueError", "RPCError"}
\* What get_entity raises in the runs drawn: failures of the resolution, which
\* are Exceptions, and the two interruptions an await ends in, which derive
\* from BaseException only.
EntityErrors == {"ValueError", "RPCError", "CancelledError", "KeyboardInterrupt"}

\* The exception classes that are no subclass of Exception: BaseException
\* itself, BaseExceptionGroup, asyncio.CancelledError, GeneratorExit,
\* KeyboardInterrupt and SystemExit. Every other class of the standard library
\* and of the client derives from Exception.
BaseExceptionsOnly ==
    {"BaseException", "BaseExceptionGroup", "CancelledError", "GeneratorExit",
     "KeyboardInterrupt", "SystemExit"}

\* isinstance(e, Exception): what "except Exception" catches.
IsException(e) == e \notin BaseExceptionsOnly
DisconnectErrors == {"ConnectionError"}

Message(id, peer_id) == [id |-> id, peer_id |-> peer_id]

\* The messages a grouped send answers with in the whole run: one in a channel,
\* one in a direct chat with an id beyond 32 bits.
SentMessages ==
    {Message(<<5>>, PeerChannel(<<7>>)), Message(<<6, 0, 1>>, PeerUser(<<9>>))}

SeqsUpTo(S, n) == UNION {[1..k -> S] : k \in 0..n}

\* send_file answers with a list of Messages or with one Message; the platform,
\* not this program, decides how many. An answer is [list, v]: v is the list
\* when list holds, else the one Message.
ListAnswers(msgs) == SeqsUpTo(msgs, MaxMsgs)

\* get_entity answers with an entity that has a username attribute (None, empty
\* or an alias) or has none.
Entities ==
    {[has_username |-> FALSE, username |-> None]}
        \cup {[has_username |-> TRUE, username |-> u] :
                u \in {None, <<>>, <<"a", "l">>}}

\* ------------------------------------------------------------------- inputs

Me == <<"m", "e">>

\* The i-th value of a list that gives one path in each value: "a" and "b" in
\* turn.
PathArg(i) == IF i % 2 = 1 THEN <<"a">> ELSE <<"b">>

\* The lists --files gives in the whole run: one blank value, one value of two
\* lines, and from one to MaxArgs values of one path each.
RawFileLists ==
    {<<<<" ">>>>, <<<<"a", "\n", "b">>>>}
        \cup {[i \in 1..k |-> PathArg(i)] : k \in 1..MaxArgs}

EmptyArgs == [to |-> None, message |-> None, files |-> NoFiles]

NoCreds == [api_id |-> 0, api_hash |-> None, bot_token |-> None]

TypeOK ==
    /\ pc \in {"validate_env", "parse_args", "start", "start_wait", "main",
               "upload_wait", "send_wait", "get_entity", "get_entity_wait",
               "build_urls", "disconnect", "disconnect_wait", "output",
               "done", "exited", "raised"}
    /\ outcome.kind \in {"running", "done", "exit", "raise"}
    /\ Len(result) <= 1

\* The state before async_main runs, the inputs left to the caller.
InitLocals ==
    /\ args = EmptyArgs
    /\ creds = NoCreds
    /\ events = <<>>
    /\ uploaded_files = <<>>
    /\ sent_messages = <<>>
    /\ chat_username = None
    /\ result = <<>>
    /\ pending = ""
    /\ stdout = <<>>
    /\ outcome = Running

Init ==
    /\ environ \in [API_ID : {None, <<"x">>, <<"1", "2">>},
                    API_HASH : {None, <<"h">>},
                    BOT_TOKEN : {None, <<"t">>},
                    GITHUB_OUTPUT : {None}]
    /\ argv \in [to : {Me}, message : {<<>>, <<"m">>},
                 files : {NoFiles} \cup RawFileLists]
    /\ sink = <<>>
    /\ pc = "validate_env"
    /\ InitLocals

\* ------------------------------------------------------------- async_main

\* api_id, api_hash, bot_token = validate_env()
ValidateEnv ==
    /\ pc = "validate_env"
    /\ LET r == validate_env(environ)
       IN  CASE r.kind = "exit" ->
                  /\ stdout' = Append(stdout, Line(r.diag, <<>>))
                  /\ outcome' = [kind |-> "exit", code |-> r.code, exc |-> ""]
                  /\ pc' = "exited"
                  /\ creds' = creds
             [] r.kind = "raise" ->
                  /\ outcome' = [kind |-> "raise", code |-> 0, exc |-> r.exc]
                  /\ pc' = "raised"
                  /\ UNCHANGED <<stdout, creds>>
             [] OTHER ->
                  /\ creds' = r.value
                  /\ pc' = "parse_args"
                  /\ UNCHANGED <<stdout, outcome>>
    /\ UNCHANGED <<environ, argv, args, events, uploaded_files, sent_messages,
                   chat_username, result, pending, sink>>

\* args = parser.parse_args(); if args.files: args.files = process_files_arg(...)
ParseArgs ==
    /\ pc = "parse_args"
    /\ args' = [to |-> argv.to, message |-> argv.message,
                files |-> IF TruthyList(argv.files)
                          THEN process_files_arg(argv.files)
                          ELSE argv.files]
    /\ pc' = "start"
    /\ UNCHANGED <<environ, argv, creds, events, uploaded_files, sent_messages,
                   chat_username, result, pending, stdout, sink, outcome>>

\* await bot.start(bot_token=bot_token): the call is made, the coroutine waits.
StartCall ==
    /\ pc = "start"
    /\ events' = Append(events, Ev("call", "start"))
    /\ pc' = "start_wait"
    /\ UNCHANGED <<environ, argv, args, creds, uploaded_files, sent_messages,
                   chat_username, result, pending, stdout, sink, outcome>>

StartReturn ==
    /\ pc = "start_wait"
    /\ events' = Append(events, Ev("ret", "start"))
    /\ pc' = "main"
    /\ UNCHANGED <<environ, argv, args, creds, uploaded_files, sent_messages,
                   chat_username, result, pending, stdout, sink, outcome>>

\* start is outside the try: its failure leaves async_main at once.
StartFail ==
    /\ pc = "start_wait"
    /\ \E e \in StartErrors :
        /\ events' = Append(events, [Ev("err", "start") EXCEPT !.exc = e])
        /\ outcome' = [kind |-> "raise", code |-> 0, exc |-> e]
    /\ pc' = "raised"
    /\ UNCHANGED <<environ, argv, args, creds, uploaded_files, sent_messages,
                   chat_username, result, pending, stdout, sink>>

\* ------------------------------------------------------------------- main

\* A client call is answered by a return or by a failure. While main waits for
\* the answer of upload_file or send_file the client calls the progress callback
\* main handed it, when and as often as it chooses: each call is a step of its
\* own, taken during the wait.

\* One call callback(current, total).
Progress(current, total) == [current |-> current, total |-> total]

\* The calls the client makes during one upload_file or send_file, in order:
\* one after each of two parts. It may answer, or fail, after any of them.
ProgressSteps == <<Progress(1, 2), Progress(2, 2)>>

\* A natural number as limbs.
RECURSIVE Limbs(_)
Limbs(v) == IF v = 0 THEN <<>> ELSE <<v % LimbBase>> \o Limbs(v \div LimbBase)

\* The totals for which current / total * 100 is computed without rounding: the
\* powers of two up to 2^10.
ExactTotals == {2 ^ k : k \in 0..10}

\* The decimal digits of r / total after the point, for r < total and total a
\* power of two: the expansion ends.
RECURSIVE FractionDigits(_, _)
FractionDigits(r, total) ==
    IF r = 0 THEN <<>>
    ELSE <<Digits[((r * 10) \div total) + 1]>>
            \o FractionDigits((r * 10) % total, total)

\* f"{current / total * 100}": the float, as repr renders it. It is defined
\* here for a total of ExactTotals and current from 0 to total: the quotient
\* and the product are then exact, the value has at most 13 significant digits,
\* and repr gives them all, with ".0" after a whole number. For other totals
\* the float is rounded (1 / 3 * 100 renders as 33.33333333333333), which is
\* not modelled; a total of 0 raises ZeroDivisionError.
Percent(current, total) ==
    CASE total \in ExactTotals /\ current \in 0..total ->
        LET whole == (current * 100) \div total
            rest == (current * 100) % total
        IN  Str(Limbs(whole)) \o <<".">>
                \o (IF rest = 0 THEN <<"0">> ELSE FractionDigits(rest, total))

\* The characters of s as one text.
RECURSIVE Text(_)
Text(s) == IF s = <<>> THEN "" ELSE Head(s) \o Text(Tail(s))

\* def callback(current, total): print(f"Uploaded: {current / total * 100}%")
callback(c) == Line("Uploaded: " \o Text(Percent(c.current, c.total)) \o "%", <<>>)

\* The lines the calls of ProgressSteps print.
ProgressLines == {callback(ProgressSteps[i]) : i \in 1..Len(ProgressSteps)}

\* How many calls of the callback the client has made in the call it is
\* working on: the progress lines that end out. (The line before them is the
\* one main printed when it made the call.)
RECURSIVE Reported(_)
Reported(out) ==
    IF out # <<>> /\ out[Len(out)] \in ProgressLines
    THEN 1 + Reported(SubSeq(out, 1, Len(out) - 1))
    ELSE 0

\* The client calls callback(current, total) while main is suspended in the
\* await of upload_file or of send_file: the line is printed, main stays where
\* it is.
ProgressCallback ==
    /\ pc \in {"upload_wait", "send_wait"}
    /\ Reported(stdout) < Len(ProgressSteps)
    /\ stdout' = Append(stdout, callback(ProgressSteps[Reported(stdout) + 1]))
    /\ UNCHANGED <<environ, argv, args, pc, creds, events, uploaded_files,
                   sent_messages, chat_username, result, pending, sink, outcome>>

\* for file in files: with files None the loop raises TypeError at once.
FilesNotIterable ==
    /\ pc = "main"
    /\ args.files = NoFiles
    /\ pending' = "TypeError"
    /\ pc' = "disconnect"
    /\ UNCHANGED <<environ, argv, args, creds, events, uploaded_files,
                   sent_messages, chat_username, result, stdout, sink, outcome>>

\* The loop taking the files from the last to the first.
NextFileReversed(files, uploaded) == files[Len(files) - Len(uploaded)]

\* The file the loop is at: the one after those already uploaded.
NextFile(files, uploaded) == files[Len(uploaded) + 1]

\* ufile = await client.upload_file(file, ...), for the next file of the list.
UploadCall ==
    /\ pc = "main"
    /\ args.files # NoFiles
    /\ Len(uploaded_files) < Len(args.files)
    /\ LET file == NextFile(args.files, uploaded_files)
       IN  /\ stdout' = Append(stdout, Line("Uploading ", file))
           /\ events' = Append(events,
                               [Ev("call", "upload_file") EXCEPT !.path = file])
    /\ pc' = "upload_wait"
    /\ UNCHANGED <<environ, argv, args, creds, uploaded_files, sent_messages,
                   chat_username, result, pending, sink, outcome>>

\* uploaded_files.append(ufile)
UploadReturn ==
    /\ pc = "upload_wait"
    /\ LET h == Handle(events[Len(events)].path, Len(uploaded_files) + 1)
       IN  /\ events' = Append(events,
                               [Ev("ret", "upload_file") EXCEPT !.handle = h])
           /\ uploaded_files' = Append(uploaded_files, h)
    /\ stdout' = Append(stdout, Line("Uploaded ", events[Len(events)].path))
    /\ pc' = "main"
    /\ UNCHANGED <<environ, argv, args, creds, sent_messages, chat_username,
                   result, pending, sink, outcome>>

\* A failed client call tried again: the failure dropped, the loop resumed.
PropagateRetrying(e) ==
    /\ pending' = pending
    /\ pc' = "main"

\* A variant without the finally: the failure leaves async_main at once.
PropagateWithoutFinally(e) ==
    /\ pending' = e
    /\ pc' = "raised"

\* Where main goes when a client call it does not guard raises e: out of main,
\* into the finally of async_main, with e held.
Propagate(e) ==
    /\ pending' = e
    /\ pc' = "disconnect"

UploadFail ==
    /\ pc = "upload_wait"
    /\ \E e \in UploadErrors :
        /\ events' = Append(events, [Ev("err", "upload_file") EXCEPT !.exc = e])
        /\ Propagate(e)
    /\ UNCHANGED <<environ, argv, args, creds, uploaded_files, sent_messages,
                   chat_username, result, stdout, sink, outcome>>

\* sent_messages = await client.send_file(entity=to, file=uploaded_files,
\*                                        caption=message_list, ...)
SendCall ==
    /\ pc = "main"
    /\ args.files # NoFiles
    /\ Len(uploaded_files) = Len(args.files)
    /\ stdout' = Append(stdout, Line("Sending message", <<>>))
    /\ events' = Append(events,
            [Ev("call", "send_file") EXCEPT
                !.entity = args.to,
                !.files = uploaded_files,
                !.caption = CaptionList(uploaded_files, args.message)])
    /\ pc' = "send_wait"
    /\ UNCHANGED <<environ, argv, args, creds, uploaded_files, sent_messages,
                   chat_username, result, pending, sink, outcome>>

\* if not isinstance(sent_messages, list): sent_messages = [sent_messages]
AsList(answer) == IF answer.list THEN answer.v ELSE <<answer.v>>

SendReturned(answer) ==
    /\ events' = Append(events,
            [Ev("ret", "send_file") EXCEPT
                !.list = answer.list,
                !.msgs = IF answer.list THEN answer.v ELSE <<answer.v>>])
    /\ sent_messages' = AsList(answer)
    /\ stdout' = Append(stdout, Line("Sent message", <<>>))
    /\ pc' = "get_entity"
    /\ UNCHANGED <<environ, argv, args, creds, uploaded_files, chat_username,
                   result, pending, sink, outcome>>

SendReturn ==
    /\ pc = "send_wait"
    /\ \/ \E l \in ListAnswers(SentMessages) : SendReturned([list |-> TRUE, v |-> l])
       \/ \E m \in SentMessages : SendReturned([list |-> FALSE, v |-> m])

SendFail ==
    /\ pc = "send_wait"
    /\ \E e \in SendErrors :
        /\ events' = Append(events, [Ev("err", "send_file") EXCEPT !.exc = e])
        /\ Propagate(e)
    /\ UNCHANGED <<environ, argv, args, creds, uploaded_files, sent_messages,
                   chat_username, result, stdout, sink, outcome>>

\* entity = await client.get_entity(to), inside try
GetEntityCall ==
    /\ pc = "get_entity"
    /\ events' = Append(events, [Ev("call", "get_entity") EXCEPT !.entity = args.to])
    /\ pc' = "get_entity_wait"
    /\ UNCHANGED <<environ, argv, args, creds, uploaded_files, sent_messages,
                   chat_username, result, pending, stdout, sink, outcome>>

\* chat_username = getattr(entity, "username", None)
GetEntityReturn ==
    /\ pc = "get_entity_wait"
    /\ \E ent \in Entities :
        /\ events' = Append(events, Ev("ret", "get_entity"))
        /\ chat_username' = IF ent.has_username THEN ent.username ELSE None
    /\ pc' = "build_urls"
    /\ UNCHANGED <<environ, argv, args, creds, uploaded_files, sent_messages,
                   result, pending, stdout, sink, outcome>>

\* get_entity's failure left to leave main, as an upload's failure does.
SwallowNothing(e) ==
    /\ pending' = e
    /\ pc' = "disconnect"

\* Where main goes when get_entity raises e. try: ... except Exception: pass
\* catches an Exception, and main goes on with chat_username None; anything
\* else leaves main as an upload's failure does, into the finally of
\* async_main, with e held.
Swallow(e) ==
    IF IsException(e)
    THEN /\ pending' = pending
         /\ pc' = "build_urls"
    ELSE /\ pending' = e
         /\ pc' = "disconnect"

GetEntityFail ==
    /\ pc = "get_entity_wait"
    /\ \E e \in EntityErrors :
        /\ events' = Append(events, [Ev("err", "get_entity") EXCEPT !.exc = e])
        /\ Swallow(e)
    /\ UNCHANGED <<environ, argv, args, creds, uploaded_files, sent_messages,
                   chat_username, result, stdout, sink, outcome>>

\* The result with its ids in the reverse of the order of the messages.
UploadResultIdsReversed(msgs, username) ==
    [message_urls |->
        [i \in 1..Len(msgs) |->
            build_message_url(msgs[i].peer_id, msgs[i].id, username)],
     message_ids |-> [i \in 1..Len(msgs) |-> msgs[Len(msgs) + 1 - i].id]]

\* The result with an entry for the first message only.
UploadResultFirstOnly(msgs, username) ==
    [message_urls |->
        [i \in 1..(IF msgs = <<>> THEN 0 ELSE 1) |->
            build_message_url(msgs[i].peer_id, msgs[i].id, username)],
     message_ids |-> [i \in 1..(IF msgs = <<>> THEN 0 ELSE 1) |-> msgs[i].id]]

\* The UploadResult main builds: one id and one URL for each sent message.
UploadResult(msgs, username) ==
    [message_urls |->
        [i \in 1..Len(msgs) |->
            build_message_url(msgs[i].peer_id, msgs[i].id, username)],
     message_ids |-> [i \in 1..Len(msgs) |-> msgs[i].id]]

\* for msg in sent_messages: ...; return UploadResult(...)
BuildUrls ==
    /\ pc = "build_urls"
    /\ result' = <<UploadResult(sent_messages, chat_username)>>
    /\ pc' = "disconnect"
    /\ UNCHANGED <<environ, argv, args, creds, events, uploaded_files,
                   sent_messages, chat_username, pending, stdout, sink, outcome>>

\* ------------------------------------------------- async_main, after main

\* finally: await bot.disconnect()
DisconnectCall ==
    /\ pc = "disconnect"
    /\ events' = Append(events, Ev("call", "disconnect"))
    /\ pc' = "disconnect_wait"
    /\ UNCHANGED <<environ, argv, args, creds, uploaded_files, sent_messages,
                   chat_username, result, pending, stdout, sink, outcome>>

\* After the finally the exception main raised, if any, goes on to the caller.
DisconnectReturn ==
    /\ pc = "disconnect_wait"
    /\ events' = Append(events, Ev("ret", "disconnect"))
    /\ IF pending # ""
       THEN /\ outcome' = [kind |-> "raise", code |-> 0, exc |-> pending]
            /\ pc' = "raised"
       ELSE /\ outcome' = outcome
            /\ pc' = "output"
    /\ UNCHANGED <<environ, argv, args, creds, uploaded_files, sent_messages,
                   chat_username, result, pending, stdout, sink>>

\* An exception raised in the finally replaces the one held.
DisconnectFail ==
    /\ pc = "disconnect_wait"
    /\ \E e \in DisconnectErrors :
        /\ events' = Append(events, [Ev("err", "disconnect") EXCEPT !.exc = e])
        /\ outcome' = [kind |-> "raise", code |-> 0, exc |-> e]
    /\ pc' = "raised"
    /\ UNCHANGED <<environ, argv, args, creds, uploaded_files, sent_messages,
                   chat_username, result, pending, stdout, sink>>

\* [str(i) for i in ids]
StrAll(ids) == [i \in 1..Len(ids) |-> Str(ids[i])]

\* A variant that opens the file for writing: what the file held is lost.
write_github_output_truncating(e, res, lines) ==
    IF ~Truthy(e.GITHUB_OUTPUT) THEN [sink |-> lines, exc |-> ""]
    ELSE LET two == <<Line("message_urls=", Join(res.message_urls)),
                      Line("message_ids=", Join(StrAll(res.message_ids)))>>
         IN  IF Len(res.message_urls) = 0
             THEN [sink |-> two, exc |-> "IndexError"]
             ELSE [sink |-> two \o <<Line("message_url=", res.message_urls[1]),
                                     Line("message_id=", Str(res.message_ids[1]))>>,
                   exc |-> ""]

\* write_github_output(result): the sink afterwards and the exception raised, if
\* any. The sink is the file's content as its sequence of lines, each ended by
\* a newline. The file is opened for append and closed by the with statement, so the
\* lines written before an exception stay in it.
write_github_output(e, res, lines) ==
    IF ~Truthy(e.GITHUB_OUTPUT) THEN [sink |-> lines, exc |-> ""]
    ELSE LET two == lines \o <<Line("message_urls=", Join(res.message_urls)),
                               Line("message_ids=", Join(StrAll(res.message_ids)))>>
         IN  IF Len(res.message_urls) = 0
             THEN [sink |-> two, exc |-> "IndexError"]
             ELSE [sink |-> two \o <<Line("message_url=", res.message_urls[1]),
                                     Line("message_id=", Str(res.message_ids[1]))>>,
                   exc |-> ""]

\* for url in result.message_urls: print(f"Message URL: {url}")
PrintUrls(urls) == [i \in 1..Len(urls) |-> Line("Message URL: ", urls[i])]

Output ==
    /\ pc = "output"
    /\ stdout' = stdout \o PrintUrls(result[1].message_urls)
    /\ LET w == write_github_output(environ, result[1], sink)
       IN  /\ sink' = w.sink
           /\ IF w.exc # ""
              THEN /\ outcome' = [kind |-> "raise", code |-> 0, exc |-> w.exc]
                   /\ pc' = "raised"
              ELSE /\ outcome' = [kind |-> "done", code |-> 0, exc |-> ""]
                   /\ pc' = "done"
    /\ UNCHANGED <<environ, argv, args, creds, events, uploaded_files,
                   sent_messages, chat_username, result, pending>>

Next ==
    \/ ValidateEnv
    \/ ParseArgs
    \/ StartCall
    \/ StartReturn
    \/ StartFail
    \/ FilesNotIterable
    \/ UploadCall
    \/ ProgressCallback
    \/ UploadReturn
    \/ UploadFail
    \/ SendCall
    \/ SendReturn
    \/ SendFail
    \/ GetEntityCall
    \/ GetEntityReturn
    \/ GetEntityFail
    \/ BuildUrls
    \/ DisconnectCall
    \/ DisconnectReturn
    \/ DisconnectFail
    \/ Output

Spec == Init /\ [][Next]_vars

\* ------------------------------------- the specifications of the pure parts

\* Every string of at most n characters of A.
Strs(A, n) == UNION {[1..k -> A] : k \in 0..n}

\* The ways to cut s into k consecutive pieces, any of them empty.
RECURSIVE Cuts(_, _)
Cuts(s, k) ==
    IF k = 1 THEN {<<s>>}
    ELSE UNION {{<<SubSeq(s, 1, i)>> \o rest :
                    rest \in Cuts(SubSeq(s, i + 1, Len(s)), k - 1)} :
                i \in 0..Len(s)}

\* A vertical tab and a unit separator (0x1F) among the characters: int() skips
\* the first as it skips a space, and raises ValueError on the second.
EnvAlphabet == {"0", "1", " ", "-", "+", "_", "x", "", ""}

\* validate_env and the first steps of async_main after it, over every API_ID of
\* at most MaxLen characters, each key unset, empty or set.
InitEnv ==
    /\ environ \in [API_ID : {None} \cup Strs(EnvAlphabet, MaxLen),
                    API_HASH : {None, <<>>, <<"h">>},
                    BOT_TOKEN : {None, <<>>, <<"t">>},
                    GITHUB_OUTPUT : {None}]
    /\ argv = [to |-> Me, message |-> <<"m">>, files |-> <<<<"a">>>>]
    /\ sink = <<>>
    /\ pc = "validate_env"
    /\ InitLocals

NextEnv ==
    \/ ValidateEnv
    \/ ParseArgs
    \/ StartCall

SpecEnv == InitEnv /\ [][NextEnv]_vars

\* A vertical tab and a group separator (0x1D), both whitespace and line
\* boundaries, and a unit separator (0x1F), whitespace and no line boundary,
\* among the characters.
FileAlphabet == {"a", "b", " ", "\n", "\r", "\f", "", "", ""}

GoodEnv ==
    [API_ID |-> <<"1", "2">>, API_HASH |-> <<"h">>, BOT_TOKEN |-> <<"t">>,
     GITHUB_OUTPUT |-> None]

\* async_main at parse_args, over every list --files can give (nargs="+": at
\* least one value) of at most MaxArgs values of at most MaxLen characters
\* together: every cut of every string.
InitFiles ==
    /\ environ = GoodEnv
    /\ \E s \in Strs(FileAlphabet, MaxLen), k \in 1..MaxArgs :
            argv \in [to : {Me}, message : {<<"m">>}, files : Cuts(s, k)]
    /\ sink = <<>>
    /\ pc = "parse_args"
    /\ args = EmptyArgs
    /\ creds = validate_env(GoodEnv).value
    /\ events = <<>>
    /\ uploaded_files = <<>>
    /\ sent_messages = <<>>
    /\ chat_username = None
    /\ result = <<>>
    /\ pending = ""
    /\ stdout = <<>>
    /\ outcome = Running

NextFiles == ParseArgs

SpecFiles == InitFiles /\ [][NextFiles]_vars

\* 2^32 - 1, 2^32 and 1234567890123 among the ids.
UrlMessageIds == {<<42>>, <<65535, 65535>>, <<0, 0, 1>>}
UrlPeerIds == {<<57920, 1>>, <<1227, 29179, 287>>}
UrlPeers ==
    UNION {{PeerChannel(n), PeerChat(n), PeerUser(n)} : n \in UrlPeerIds}
UrlMessages == {Message(i, p) : i \in UrlMessageIds, p \in UrlPeers}
UrlUsernames == {None, <<>>, <<"a", "l">>, <<"c">>}

\* The client's log of a run that uploaded one file and was answered msgs.
LogOfSend(msgs) ==
    <<Ev("call", "start"), Ev("ret", "start"),
      [Ev("call", "upload_file") EXCEPT !.path = <<"a">>],
      [Ev("ret", "upload_file") EXCEPT !.handle = Handle(<<"a">>, 1)],
      [Ev("call", "send_file") EXCEPT !.entity = Me,
                                      !.files = <<Handle(<<"a">>, 1)>>,
                                      !.caption = <<<<"m">>>>],
      [Ev("ret", "send_file") EXCEPT !.msgs = msgs],
      [Ev("call", "get_entity") EXCEPT !.entity = Me],
      Ev("ret", "get_entity")>>

\* main where it builds the URLs, over every answer of at most MaxMsgs of
\* UrlMessages and every alias of UrlUsernames.
InitUrl ==
    /\ environ = GoodEnv
    /\ argv = [to |-> Me, message |-> <<"m">>, files |-> <<<<"a">>>>]
    /\ args = argv
    /\ creds = validate_env(GoodEnv).value
    /\ sink = <<>>
    /\ pc = "build_urls"
    /\ sent_messages \in SeqsUpTo(UrlMessages, MaxMsgs)
    /\ chat_username \in UrlUsernames
    /\ events = LogOfSend(sent_messages)
    /\ uploaded_files = <<Handle(<<"a">>, 1)>>
    /\ result = <<>>
    /\ pending = ""
    /\ stdout = <<Line("Uploading ", <<"a">>), Line("Uploaded ", <<"a">>),
                  Line("Sending message", <<>>), Line("Sent message", <<>>)>>
    /\ outcome = Running

NextUrl == BuildUrls

SpecUrl == InitUrl /\ [][NextUrl]_vars

\* The most lines the sink holds before the report is written.
MaxPrior == 2

\* A line an earlier step of the workflow left in the sink.
PriorLines == {Line("k=", <<"v">>)}

OutMessages == {Message(i, PeerChannel(<<57920, 1>>)) : i \in UrlMessageIds}

\* The log of a run whose main returned and whose session was then closed.
LogOfRun(msgs) ==
    LogOfSend(msgs) \o <<Ev("call", "disconnect"), Ev("ret", "disconnect")>>

\* async_main after the finally, where it prints and writes the result, over
\* every result main builds from at most MaxMsgs of OutMessages (none included),
\* GITHUB_OUTPUT unset, empty and set, and a sink of at most MaxPrior lines.
InitOut ==
    /\ environ \in {[GoodEnv EXCEPT !.GITHUB_OUTPUT = g] : g \in {None, <<>>, <<"o">>}}
    /\ argv = [to |-> Me, message |-> <<"m">>, files |-> <<<<"a">>>>]
    /\ args = argv
    /\ creds = validate_env(GoodEnv).value
    /\ sink \in SeqsUpTo(PriorLines, MaxPrior)
    /\ pc = "output"
    /\ sent_messages \in SeqsUpTo(OutMessages, MaxMsgs)
    /\ chat_username \in {None, <<"a", "l">>}
    /\ events = LogOfRun(sent_messages)
    /\ uploaded_files = <<Handle(<<"a">>, 1)>>
    /\ result = <<UploadResult(sent_messages, chat_username)>>
    /\ pending = ""
    /\ stdout = <<Line("Uploading ", <<"a">>), Line("Uploaded ", <<"a">>),
                  Line("Sending message", <<>>), Line("Sent message", <<>>)>>
    /\ outcome = Running

NextOut == Output

SpecOut == InitOut /\ [][NextOut]_vars

\* The file arguments of the runs of SpecSession: --files absent, one file, a
\* value that holds no path, one value holding two paths.
SessionFileArgs ==
    {NoFiles, <<<<"a">>>>, <<<<" ">>>>, <<<<"a", "\n", "b">>>>}

\* async_main from its first line, with the three credentials set, GITHUB_OUTPUT
\* unset or set, and the sink, where there is one, empty or holding a line.
InitSession ==
    /\ environ \in {[GoodEnv EXCEPT !.GITHUB_OUTPUT = g] : g \in {None, <<"o">>}}
    /\ argv \in [to : {Me}, message : {<<"m">>}, files : SessionFileArgs]
    /\ sink \in IF Truthy(environ.GITHUB_OUTPUT) THEN {<<>>} \cup {<<l>> : l \in PriorLines}
                 ELSE {<<>>}
    /\ pc = "validate_env"
    /\ InitLocals

SpecSession == InitSession /\ [][Next]_vars

\* ------------------------------------------------------------------ claims

\* A key is missing when it is unset or empty: what "not value" tests.
Missing(key) == environ[key] = None \/ environ[key] = <<>>

EnvKeys == <<"API_ID", "API_HASH", "BOT_TOKEN">>

AnyMissing == \E i \in 1..3 : Missing(EnvKeys[i])

\* The first missing key in the order API_ID, API_HASH, BOT_TOKEN.
FirstMissing ==
    EnvKeys[CHOOSE i \in 1..3 :
                Missing(EnvKeys[i]) /\ \A j \in 1..(i - 1) : ~Missing(EnvKeys[j])]

MissingDiag(key) ==
    CASE key = "API_ID" -> "API_ID is missing"
      [] key = "API_HASH" -> "API_HASH is missing"
      [] key = "BOT_TOKEN" -> "BOT_TOKEN is missing"

Validated == pc # "validate_env"

\* The process has exited with status 1 after printing that the first missing
\* key is missing, and no client call was made.
ExitedOnFirstMissing ==
    /\ pc = "exited"
    /\ outcome = [kind |-> "exit", code |-> 1, exc |-> ""]
    /\ stdout = <<Line(MissingDiag(FirstMissing), <<>>)>>
    /\ events = <<>>

\* The run has ended in an uncaught ValueError: no exit status, nothing
\* printed, nothing returned, no client call made.
EndedInValueError ==
    /\ pc = "raised"
    /\ outcome = [kind |-> "raise", code |-> 0, exc |-> "ValueError"]
    /\ stdout = <<>>
    /\ creds = NoCreds
    /\ events = <<>>

\* C1 as stated: whenever at least one of API_ID, API_HASH, BOT_TOKEN is
\* missing, the process exits with status 1, the diagnostic names the first
\* missing key, and no client call has been made.
C1_ExitOnAnyMissing ==
    (Validated /\ AnyMissing) => ExitedOnFirstMissing

\* C1, amended: whenever at least one key is missing the process exits with
\* status 1 naming the first missing key, before any client call, unless
\* API_ID is there and is no integer: then the run ends in ValueError (before
\* API_HASH and BOT_TOKEN are looked at, and before any client call).
C1_ExitOnMissingUnlessMalformed ==
    (Validated /\ AnyMissing) =>
        IF ~Missing("API_ID") /\ ~IsInt(environ.API_ID)
        THEN EndedInValueError
        ELSE ExitedOnFirstMissing

\* C1's case: API_ID is a valid integer, API_HASH and BOT_TOKEN are both
\* missing, and the process has exited.
C1_Witness ==
    /\ pc = "exited"
    /\ ~Missing("API_ID")
    /\ Missing("API_HASH")
    /\ Missing("BOT_TOKEN")

\* The value of a decimal literal read from its first digit on, signs,
\* blanks and underscores skipped: acc is the value of what was read.
RECURSIVE DigitsValue(_, _)
DigitsValue(s, acc) ==
    IF s = <<>> THEN acc
    ELSE IF Head(s) \in DigitChars
    THEN DigitsValue(Tail(s), 10 * acc + DigitValue(Head(s)))
    ELSE DigitsValue(Tail(s), acc)

SignedValue(s) ==
    IF \E i \in 1..Len(s) : s[i] = "-"
    THEN 0 - DigitsValue(s, 0)
    ELSE DigitsValue(s, 0)

\* C2: with the three keys there and API_ID a valid integer string,
\* validate_env returns (API_ID as an integer, API_HASH, BOT_TOKEN), the two
\* strings unchanged; with API_ID there and no integer string the run ends in
\* an uncaught ValueError: no exit with status 1, nothing returned.
C2_TripleOrValueError ==
    Validated =>
        /\ (~AnyMissing /\ IsInt(environ.API_ID)) =>
              /\ creds = [api_id |-> SignedValue(environ.API_ID),
                          api_hash |-> environ.API_HASH,
                          bot_token |-> environ.BOT_TOKEN]
              /\ outcome = Running
        /\ (~Missing("API_ID") /\ ~IsInt(environ.API_ID)) => EndedInValueError

\* C2's case: a malformed API_ID beside two keys that are there, ended in
\* ValueError.
C2_Witness ==
    /\ pc = "raised"
    /\ ~AnyMissing
    /\ ~IsInt(environ.API_ID)

\* C2's other case: a signed, padded API_ID returned as an integer.
C2_WitnessReturned ==
    /\ pc = "parse_args"
    /\ environ.API_ID = <<" ", "-", "1">>
    /\ creds.api_id = -1

\* C2's third case: a unit separator (0x1F) after the digit, which int() does
\* not skip, ended in ValueError.
C2_WitnessSeparator ==
    /\ pc = "raised"
    /\ ~AnyMissing
    /\ environ.API_ID = <<"1", "">>
    /\ outcome.exc = "ValueError"

\* s without its leading and trailing whitespace: from its first character
\* that is no whitespace to its last.
Trimmed(s) ==
    LET keep == {i \in 1..Len(s) : s[i] \notin Whitespace}
    IN  IF keep = {} THEN <<>>
        ELSE SubSeq(s, CHOOSE i \in keep : \A j \in keep : i <= j,
                       CHOOSE i \in keep : \A j \in keep : j <= i)

\* The pieces of s between the characters of B, each trimmed, the empty ones
\* dropped, in the order they stand in s.
PiecesOf(s, B) ==
    LET cuts == {0, Len(s) + 1} \cup {i \in 1..Len(s) : s[i] \in B}
        After(c) == CHOOSE d \in cuts : d > c /\ \A x \in cuts : x > c => d <= x
        RECURSIVE From(_)
        From(c) ==
            IF c = Len(s) + 1 THEN <<>>
            ELSE <<Trimmed(SubSeq(s, c + 1, After(c) - 1))>> \o From(After(c))
    IN  SelectSeq(From(0), LAMBDA x : x # <<>>)

RECURSIVE Flatten(_)
Flatten(ll) == IF ll = <<>> THEN <<>> ELSE Head(ll) \o Flatten(Tail(ll))

\* The pieces of every string of the list, in the order of the list.
AllPieces(files, B) == Flatten([i \in 1..Len(files) |-> PiecesOf(files[i], B)])

Parsed == pc # "parse_args" /\ pc # "validate_env"

\* C3 as stated: the output is the pieces obtained by splitting each input on
\* line boundaries, these being the bare newline and the carriage-return
\* newline, each trimmed, the empty ones dropped, in input order. (A "\r"
\* before a "\n" is trimmed away, so cutting at "\n" gives these pieces.)
C3_SplitOnNewlines ==
    (Parsed /\ TruthyList(argv.files)) =>
        args.files = AllPieces(argv.files, {"\n"})

\* C3, amended: the line boundaries are all those of str.splitlines: the
\* newline, the carriage return with or without a newline after it, and the
\* other line-breaking characters: the form feed, the vertical tab and the
\* separators 0x1C, 0x1D, 0x1E. Nothing else is cut, reordered, duplicated or
\* dropped.
C3_SplitOnLineBreaks ==
    (Parsed /\ TruthyList(argv.files)) =>
        args.files = AllPieces(argv.files, {"\n", "\r", "\f", "", "", "", ""})

\* C3's third case: a vertical tab between two paths cuts them apart.
C3_WitnessVerticalTab ==
    /\ Parsed
    /\ argv.files = <<<<"a", "", "b">>>>
    /\ args.files = <<<<"a">>, <<"b">>>>

\* C3's fourth case: a unit separator (0x1F) between two letters cuts nothing
\* and stays in the path.
C3_WitnessUnitSeparator ==
    /\ Parsed
    /\ argv.files = <<<<"a", "", "b">>>>
    /\ args.files = <<<<"a", "", "b">>>>

\* C3's case: two values, the first ending in a newline, normalised to two
\* paths in input order.
C3_Witness ==
    /\ Parsed
    /\ argv.files = <<<<"a", "\n">>, <<"b">>>>
    /\ args.files = <<<<"a">>, <<"b">>>>

\* C3's other case: a bare carriage return between two paths cuts them apart.
C3_WitnessBareCR ==
    /\ Parsed
    /\ argv.files = <<<<"a", "\r", "b">>>>
    /\ args.files = <<<<"a">>, <<"b">>>>

\* --- the client's log

\* The positions of the log holding an event of kind k of operation op.
At(k, op) == {i \in 1..Len(events) : events[i].k = k /\ events[i].op = op}

Count(k, op) == Cardinality(At(k, op))

\* The events of kind k of operation op, in the order of the log.
Sel(k, op) == SelectSeq(events, LAMBDA e : e.k = k /\ e.op = op)

\* The calls made and not yet answered.
InFlight ==
    Cardinality({i \in 1..Len(events) : events[i].k = "call"})
        - Cardinality({i \in 1..Len(events) : events[i].k # "call"})

\* Every call is answered (returned or failed) before the next call is made.
OneAtATime ==
    /\ InFlight \in {0, 1}
    /\ \A i \in 1..Len(events) :
        IF events[i].k = "call"
        THEN i = Len(events)
                \/ (events[i + 1].k # "call" /\ events[i + 1].op = events[i].op)
        ELSE i > 1 /\ events[i - 1].k = "call" /\ events[i - 1].op = events[i].op

N == Len(args.files)

InMain ==
    pc \in {"main", "upload_wait", "send_wait", "get_entity", "get_entity_wait",
            "build_urls"}

\* main has returned its UploadResult.
MainReturned == result # <<>>

\* C4: for a non-empty list of N files, the i-th upload_file call is for the
\* i-th file, each call is answered before the next call is made, the one
\* send_file call comes after the N-th upload has returned and its file
\* argument is the N returned handles in order, and a run in which main
\* returns has made exactly N upload calls and one send call; no two client
\* calls are ever in flight together.
C4_SequentialUploadsThenOneSend ==
    /\ OneAtATime
    /\ (Validated /\ Parsed /\ args.files # NoFiles /\ N >= 1) =>
        LET ups == Sel("call", "upload_file")
            rets == Sel("ret", "upload_file")
            sends == Sel("call", "send_file")
        IN  /\ Len(ups) <= N
            /\ \A i \in 1..Len(ups) : ups[i].path = args.files[i]
            /\ Len(sends) <= 1
            /\ \A j \in At("call", "send_file") :
                /\ Len(rets) = N
                /\ At("ret", "upload_file") \cup At("call", "upload_file") \subseteq 1..(j - 1)
                /\ events[j - 1].k = "ret" /\ events[j - 1].op = "upload_file"
                /\ events[j].files = [i \in 1..N |-> rets[i].handle]
            /\ MainReturned => (Len(ups) = N /\ Len(rets) = N /\ Len(sends) = 1)

\* C4's case: main has returned after uploading two different files.
C4_Witness ==
    /\ MainReturned
    /\ args.files # NoFiles
    /\ N = 2
    /\ args.files[1] # args.files[2]
    /\ Count("call", "upload_file") = 2
    /\ Count("call", "send_file") = 1

\* C5 as stated: the caption list passed to the grouped send has the length
\* of the file list, None everywhere but in its last place, which holds the
\* caption, empty or not; with one file it is [caption].
C5_CaptionPerFile ==
    \A j \in At("call", "send_file") :
        LET c == events[j].caption
        IN  /\ Len(c) = N
            /\ \A i \in 1..(N - 1) : c[i] = None
            /\ c[N] = args.message
            /\ N = 1 => c = <<args.message>>

\* C5 for a file list that is not empty (the case the claim fails outside of).
C5_CaptionPerFileNonEmpty ==
    \A j \in At("call", "send_file") :
        LET c == events[j].caption
        IN  N >= 1 =>
              /\ Len(c) = N
              /\ \A i \in 1..(N - 1) : c[i] = None
              /\ c[N] = args.message
              /\ N = 1 => c = <<args.message>>

\* The grouped send called with no file at all and a caption list of one entry.
C5_ZeroFilesOneCaption ==
    \E j \in At("call", "send_file") :
        /\ N = 0
        /\ events[j].files = <<>>
        /\ events[j].caption = <<args.message>>

\* The upload_file and send_file calls that failed.
FailedAt == At("err", "upload_file") \cup At("err", "send_file")

\* C6: once an upload_file or send_file call has failed, the same failure is
\* what leaves main (held while the finally of async_main disconnects, then
\* raised to the caller unless the disconnect itself fails), main returns no
\* UploadResult, and no upload, send or get_entity call follows: nothing is
\* tried again.
C6_FailurePropagates ==
    \A i \in FailedAt :
        /\ pending = events[i].exc
        /\ ~InMain
        /\ result = <<>>
        /\ \A j \in (i + 1)..Len(events) : events[j].op = "disconnect"
        /\ (pc = "raised" /\ events[Len(events)].k = "ret") =>
              outcome = [kind |-> "raise", code |-> 0, exc |-> events[i].exc]
        /\ pc \notin {"output", "done"}

\* C6's case: the upload of the second file failed and the failure left
\* async_main.
C6_Witness ==
    /\ pc = "raised"
    /\ Count("ret", "upload_file") = 1
    /\ Count("err", "upload_file") = 1
    /\ outcome.exc = "FilePartsInvalidError"

HasPrefix(s, p) == Len(s) >= Len(p) /\ SubSeq(s, 1, Len(p)) = p

\* The get_entity calls that failed, and those of them that failed with an
\* Exception.
EntityFailedAt == At("err", "get_entity")

EntityExceptionAt == {i \in EntityFailedAt : IsException(events[i].exc)}

\* get_entity is called at most once, right after send_file has returned, and
\* exactly once in a run where main returns.
ResolvedOnce ==
    /\ Count("call", "get_entity") <= 1
    /\ \A j \in At("call", "get_entity") :
        j > 1 /\ events[j - 1].k = "ret" /\ events[j - 1].op = "send_file"
    /\ MainReturned => Count("call", "get_entity") = 1

\* The failure of get_entity was swallowed: no failure is held or raised for
\* it, the alias is None, and main returns an UploadResult with one entry for
\* each sent message, every URL of the https://t.me/c/ form.
Swallowed(i) ==
    /\ pending = ""
    /\ chat_username = None
    /\ outcome.exc # events[i].exc
    /\ pc # "build_urls" =>
          /\ MainReturned
          /\ Len(result[1].message_urls) = Len(sent_messages)
          /\ Len(result[1].message_ids) = Len(sent_messages)
          /\ \A u \in 1..Len(sent_messages) :
                HasPrefix(result[1].message_urls[u], TMe \o <<"c", "/">>)

\* C7 as stated: get_entity is attempted once, after the grouped send has
\* succeeded; when it fails, for any reason, the failure never reaches the
\* caller, the alias is None, and main returns an UploadResult with one entry
\* for each sent message, every URL of the https://t.me/c/ form.
C7_AnyFailureSwallowed ==
    /\ ResolvedOnce
    /\ \A i \in EntityFailedAt : Swallowed(i)

\* C7, amended: get_entity is attempted once, after the grouped send has
\* succeeded; when it fails with an Exception the failure never reaches the
\* caller, the alias is None, and main returns an UploadResult with one entry
\* for each sent message, every URL of the https://t.me/c/ form; when it ends
\* in an exception that is no Exception (such as asyncio.CancelledError or
\* KeyboardInterrupt) that exception leaves main, which returns no
\* UploadResult: it is held while the finally of async_main disconnects, then
\* raised to the caller unless the disconnect itself fails.
C7_AliasFailureSwallowed ==
    /\ ResolvedOnce
    /\ \A i \in EntityExceptionAt : Swallowed(i)
    /\ \A i \in EntityFailedAt \ EntityExceptionAt :
        /\ pending = events[i].exc
        /\ ~InMain
        /\ result = <<>>
        /\ \A j \in (i + 1)..Len(events) : events[j].op = "disconnect"
        /\ (pc = "raised" /\ events[Len(events)].k = "ret") =>
              outcome = [kind |-> "raise", code |-> 0, exc |-> events[i].exc]
        /\ pc \notin {"output", "done"}

\* C7's case: get_entity failed with an Exception and the run ended well with
\* two URLs.
C7_Witness ==
    /\ pc = "done"
    /\ Count("err", "get_entity") = 1
    /\ EntityExceptionAt # {}
    /\ Len(result[1].message_urls) = 2

\* C7's other case: get_entity was cancelled and the cancellation left
\* async_main after the disconnect.
C7_WitnessCancelled ==
    /\ pc = "raised"
    /\ Count("err", "get_entity") = 1
    /\ Count("ret", "disconnect") = 1
    /\ outcome.exc = "CancelledError"

\* --- decimal numerals, read back

\* n * 10 + d on limbs, from the least significant limb up.
RECURSIVE MulAdd(_, _)
MulAdd(n, carry) ==
    IF n = <<>> THEN IF carry = 0 THEN <<>> ELSE <<carry>>
    ELSE LET v == Head(n) * 10 + carry
         IN  <<v % LimbBase>> \o MulAdd(Tail(n), v \div LimbBase)

\* The number a string of digits denotes, read from its first digit on.
RECURSIVE FromDecimal(_, _)
FromDecimal(d, acc) ==
    IF d = <<>> THEN acc
    ELSE FromDecimal(Tail(d), MulAdd(acc, DigitValue(Head(d))))

\* d is the plain decimal numeral of n: digits only, no sign, no leading zero,
\* no grouping, and it denotes n.
IsDecimalOf(d, n) ==
    /\ d # <<>>
    /\ \A i \in 1..Len(d) : d[i] \in DigitChars
    /\ Len(d) > 1 => d[1] # "0"
    /\ FromDecimal(d, <<>>) = n

Slashes(s) == {i \in 1..Len(s) : s[i] = "/"}

\* What follows the last "/" of s.
AfterLastSlash(s) ==
    LET k == CHOOSE i \in Slashes(s) : \A j \in Slashes(s) : j <= i
    IN  SubSeq(s, k + 1, Len(s))

\* s ends with "/" and the decimal numeral of n.
EndsWithId(s, n) == Slashes(s) # {} /\ IsDecimalOf(AfterLastSlash(s), n)

PeerIdOf(p) ==
    CASE p.cls = "PeerChannel" -> p.channel_id
      [] p.cls = "PeerChat" -> p.chat_id
      [] p.cls = "PeerUser" -> p.user_id

\* url is prefix, then the decimal numerals of the given numbers, each after
\* the one before and a "/".
IsUrlOf(url, prefix, first, second) ==
    /\ HasPrefix(url, prefix)
    /\ LET rest == SubSeq(url, Len(prefix) + 1, Len(url))
       IN  IF first = <<>>
           THEN IsDecimalOf(rest, second)
           ELSE /\ Slashes(rest) # {}
                /\ LET k == CHOOSE i \in Slashes(rest) : \A j \in Slashes(rest) : i <= j
                   IN  /\ IsDecimalOf(SubSeq(rest, 1, k - 1), first[1])
                       /\ IsDecimalOf(SubSeq(rest, k + 1, Len(rest)), second)

\* C8: build_message_url gives a URL for every peer, message id and alias:
\* https://t.me/{alias}/{message_id} when the alias is there and not empty,
\* whatever the peer; otherwise https://t.me/c/{id}/{message_id} with id the
\* channel_id, chat_id or user_id of the peer; the numbers in plain decimal,
\* nothing cut off beyond 32 bits.
C8_UrlForm ==
    MainReturned =>
        /\ Len(result[1].message_urls) = Len(sent_messages)
        /\ \A i \in 1..Len(sent_messages) :
            LET url == result[1].message_urls[i]
                msg == sent_messages[i]
            IN  IF chat_username # None /\ chat_username # <<>>
                THEN IsUrlOf(url, TMe \o chat_username \o <<"/">>, <<>>, msg.id)
                ELSE IsUrlOf(url, TMe \o <<"c", "/">>, <<PeerIdOf(msg.peer_id)>>,
                             msg.id)

\* C8's case: a direct chat with an alias, the message id 2^32.
C8_Witness ==
    /\ MainReturned
    /\ chat_username = <<"a", "l">>
    /\ Len(sent_messages) = 1
    /\ sent_messages[1].peer_id.cls = "PeerUser"
    /\ result[1].message_urls[1] =
          TMe \o <<"a", "l", "/", "4", "2", "9", "4", "9", "6", "7", "2", "9", "6">>

\* C8's other case: a channel with no alias, the channel id 1234567890123.
C8_WitnessLargeChannel ==
    /\ MainReturned
    /\ chat_username = None
    /\ Len(sent_messages) = 1
    /\ result[1].message_urls[1] =
          TMe \o <<"c", "/", "1", "2", "3", "4", "5", "6", "7", "8", "9", "0", "1",
                   "2", "3", "/", "4", "2">>

\* What send_file returned, as the log holds it.
SendAnswer == Sel("ret", "send_file")[1]

\* C9: the UploadResult main returns has one URL and one id for each message
\* the grouped send returned, in the order returned (one of each when it
\* returned a single message, not a list); each id is that message's id and
\* each URL ends with "/" and the decimal numeral of its id.
C9_OneEntryPerMessage ==
    MainReturned =>
        LET r == result[1]
            msgs == SendAnswer.msgs
        IN  /\ Len(r.message_urls) = Len(msgs)
            /\ Len(r.message_ids) = Len(msgs)
            /\ ~SendAnswer.list => Len(r.message_ids) = 1
            /\ \A i \in 1..Len(msgs) :
                /\ r.message_ids[i] = msgs[i].id
                /\ EndsWithId(r.message_urls[i], r.message_ids[i])

\* C9's case: the send returned two messages with different ids for one file.
C9_Witness ==
    /\ MainReturned
    /\ N = 1
    /\ Len(result[1].message_ids) = 2
    /\ result[1].message_ids[1] # result[1].message_ids[2]

\* C9's other case: the send returned a single message, not a list.
C9_WitnessSingle ==
    /\ MainReturned
    /\ ~SendAnswer.list
    /\ Len(result[1].message_ids) = 1

\* C10 as stated: after a successful grouped send of N files the UploadResult
\* has exactly N URLs and N ids. It is stated here for the answers the
\* platform is expected to give: at least one message, and no more messages
\* than files (a send of several files answered with fewer messages).
C10_NEntriesForNFiles ==
    (MainReturned /\ N >= 1 /\ Len(SendAnswer.msgs) \in 1..N) =>
        /\ Len(result[1].message_urls) = N
        /\ Len(result[1].message_ids) = N

\* C10, amended: after a successful grouped send of N files the UploadResult
\* has exactly as many URLs and as many ids as the send returned messages:
\* N of each when the send returned one message for each file.
C10_NEntriesWhenNMessages ==
    MainReturned =>
        LET m == Len(SendAnswer.msgs)
        IN  /\ Len(result[1].message_urls) = m
            /\ Len(result[1].message_ids) = m
            /\ m = N => (Len(result[1].message_urls) = N
                            /\ Len(result[1].message_ids) = N)

\* C10's case: two files sent, two messages returned, two entries of each.
C10_Witness ==
    /\ MainReturned
    /\ N = 2
    /\ Len(SendAnswer.msgs) = 2
    /\ Len(result[1].message_urls) = 2

\* --- the report in the sink

\* The pieces a reader gets who splits s at every comma, from position i on,
\* the current piece having started at start: a piece may be empty, and there
\* is always a last piece.
RECURSIVE SplitCommasFrom(_, _, _)
SplitCommasFrom(s, i, start) ==
    IF i > Len(s) THEN <<SubSeq(s, start, Len(s))>>
    ELSE IF s[i] = ","
    THEN <<SubSeq(s, start, i - 1)>> \o SplitCommasFrom(s, i + 1, i + 1)
    ELSE SplitCommasFrom(s, i + 1, start)

SplitOnComma(s) == SplitCommasFrom(s, 1, 1)

\* The number of entries of the result main returned.
M == Len(result[1].message_urls)

SinkConfigured == Truthy(environ.GITHUB_OUTPUT)

\* ds are the plain decimal numerals of ids, one each, in order.
AreDecimalsOf(ds, ids) ==
    /\ Len(ds) = Len(ids)
    /\ \A i \in 1..Len(ids) : IsDecimalOf(ds[i], ids[i])

\* new is one report of res: the four lines, in their order.
IsReportOf(new, res) ==
    /\ Len(new) = 4
    /\ <<new[1].text, new[2].text, new[3].text, new[4].text>>
          = <<"message_urls=", "message_ids=", "message_url=", "message_id=">>
    /\ SplitOnComma(new[1].arg) = res.message_urls
    /\ AreDecimalsOf(SplitOnComma(new[2].arg), res.message_ids)
    /\ new[3].arg = res.message_urls[1]
    /\ IsDecimalOf(new[4].arg, res.message_ids[1])

\* C11: the step that writes a result of at least one entry, when GITHUB_OUTPUT
\* is configured, leaves the sink holding every line it held before, unchanged
\* and in place, followed by exactly four new lines: message_urls= with the
\* URLs joined by commas, message_ids= with the ids in decimal joined by
\* commas, message_url= with the first URL, message_id= with the first id; when
\* GITHUB_OUTPUT is not configured the step leaves the sink as it was; either
\* way nothing is raised.
C11_FourLinesAppended ==
    [][(pc = "output" /\ M >= 1) =>
         /\ outcome'.kind = "done"
         /\ IF SinkConfigured
            THEN /\ Len(sink') = Len(sink) + 4
                 /\ SubSeq(sink', 1, Len(sink)) = sink
                 /\ IsReportOf(SubSeq(sink', Len(sink) + 1, Len(sink) + 4), result[1])
            ELSE sink' = sink]_vars

\* C11's case: a report of two entries was appended to a sink that held a line.
C11_Witness ==
    /\ pc = "done"
    /\ SinkConfigured
    /\ M = 2
    /\ Len(sink) = 5
    /\ sink[1] = Line("k=", <<"v">>)
    /\ sink[5].text = "message_id="

\* C11's other case: GITHUB_OUTPUT is not configured and the run is over, with
\* the sink as it was.
C11_WitnessNoSink ==
    /\ pc = "done"
    /\ ~SinkConfigured
    /\ M >= 1
    /\ sink = <<Line("k=", <<"v">>)>>

\* The value of the message_ids line of the report that ends the sink.
WrittenIds == sink[Len(sink) - 2].arg

\* C12: when a result of M >= 1 entries has been written to a configured sink,
\* the line before the last two is the message_ids line, and splitting its
\* value at the commas gives exactly M pieces, the i-th of them the plain
\* decimal numeral of the i-th id of the result.
C12_IdsRoundTrip ==
    (pc = "done" /\ SinkConfigured /\ M >= 1) =>
        /\ sink[Len(sink) - 2].text = "message_ids="
        /\ Len(SplitOnComma(WrittenIds)) = M
        /\ AreDecimalsOf(SplitOnComma(WrittenIds), result[1].message_ids)

\* C12's case: the ids 2^32 and 42 were written and are read back in that order.
C12_Witness ==
    /\ pc = "done"
    /\ SinkConfigured
    /\ result[1].message_ids = <<<<0, 0, 1>>, <<42>>>>
    /\ SplitOnComma(WrittenIds)
          = <<<<"4", "2", "9", "4", "9", "6", "7", "2", "9", "6">>, <<"4", "2">>>>

\* The keys of the lines new holds, in order.
KeysOf(new) == [i \in 1..Len(new) |-> new[i].text]

\* What a defined handling of a result of no entries may add to the sink:
\* nothing, the two list lines with the two first-entry lines omitted, or the
\* four lines.
WholeReportOfNone(new) ==
    KeysOf(new) \in {<<>>,
                     <<"message_urls=", "message_ids=">>,
                     <<"message_urls=", "message_ids=", "message_url=", "message_id=">>}

\* C13: the step that writes a result of no entries, with GITHUB_OUTPUT
\* configured, ends without raising, keeps the lines the sink held, and adds a
\* whole report or nothing.
C13_EmptyResultHandled ==
    [][(pc = "output" /\ M = 0 /\ SinkConfigured) =>
         /\ outcome'.kind = "done"
         /\ Len(sink') >= Len(sink)
         /\ SubSeq(sink', 1, Len(sink)) = sink
         /\ WholeReportOfNone(SubSeq(sink', Len(sink) + 1, Len(sink')))]_vars

\* What the code does in C13's case: IndexError, raised after the two list
\* lines were written, which stay in the sink.
C13_RaisedMidReport ==
    /\ pc = "raised"
    /\ M = 0
    /\ SinkConfigured
    /\ outcome.exc = "IndexError"
    /\ Len(sink) >= 2
    /\ KeysOf(SubSeq(sink, Len(sink) - 1, Len(sink))) = <<"message_urls=", "message_ids=">>

\* --- a run without files

\* The invocation gives no file: --files is absent, or its values hold no path
\* once split and trimmed.
NoFileGiven ==
    argv.files = NoFiles \/ process_files_arg(argv.files) = <<>>

Ended == pc \in {"done", "raised", "exited"}

\* C14: in a run whose invocation gives no file, send_file is never called
\* with an empty file argument, main returns no UploadResult, and the run,
\* once over, has ended in a failure.
C14_NoFilesRejected ==
    NoFileGiven =>
        /\ \A i \in At("call", "send_file") : events[i].files # <<>>
        /\ ~MainReturned
        /\ Ended => outcome.kind \in {"raise", "exit"}

\* What the code does for --files " ": the one value is dropped, send_file is
\* called with no file, and when it answers main returns an UploadResult, which
\* the run reports before it ends as a success.
C14_ZeroFileRunSucceeds ==
    /\ argv.files = <<<<" ">>>>
    /\ args.files = <<>>
    /\ pc = "done"
    /\ MainReturned
    /\ Count("call", "upload_file") = 0
    /\ Sel("call", "send_file")[1].files = <<>>

\* What the code does without --files: main raises TypeError before any upload,
\* the session is closed, and the run ends in that failure.
C14_AbsentFilesTypeError ==
    /\ argv.files = NoFiles
    /\ pc = "raised"
    /\ outcome.exc = "TypeError"
    /\ Count("call", "upload_file") = 0
    /\ Count("call", "send_file") = 0
    /\ Count("ret", "disconnect") = 1

\* --- the session

\* bot.start has returned: the session is open.
SessionStarted == Count("ret", "start") = 1

\* main has raised.
MainFailed == pending # ""

\* The lines of out that print a message URL.
UrlLines(out) == SelectSeq(out, LAMBDA l : l.text = "Message URL: ")

\* The session part of C15, on the log of client calls.
SessionClosedOnce ==
    /\ Count("call", "disconnect") <= 1
    /\ Count("call", "disconnect") = 1 =>
            /\ SessionStarted
            /\ MainReturned \/ MainFailed
            /\ ~(MainReturned /\ MainFailed)
    /\ (SessionStarted /\ Ended) => Count("call", "disconnect") = 1
    /\ \A i \in At("call", "disconnect") :
            \A j \in (i + 1)..Len(events) :
                events[j].op = "disconnect" /\ events[j].k # "call"
    /\ (SessionStarted /\ (MainReturned \/ MainFailed)
            /\ Count("call", "disconnect") = 0) => ENABLED DisconnectCall

\* The lines of a report among lines.
ReportLines(lines) ==
    SelectSeq(lines, LAMBDA l : l.text \in {"message_urls=", "message_ids=",
                                            "message_url=", "message_id="})

\* The output part of C15. The sink of a run holds no line of a report when
\* the run starts, so a report line in it was written by the run.
OutputAfterSuccess ==
    /\ MainFailed => (UrlLines(stdout) = <<>> /\ ReportLines(sink) = <<>>)
    /\ (UrlLines(stdout) # <<>> \/ ReportLines(sink) # <<>>) =>
            /\ MainReturned
            /\ Count("ret", "disconnect") = 1
            /\ events[Len(events)] = Ev("ret", "disconnect")
    /\ pc = "done" =>
            /\ MainReturned
            /\ Count("ret", "disconnect") = 1
            /\ UrlLines(stdout) = PrintUrls(result[1].message_urls)
            /\ SinkConfigured => Len(ReportLines(sink)) = 4

\* C15: once bot.start has returned, a run that is over has called disconnect
\* exactly once, whether main returned a result or raised, and as soon as main
\* has returned or raised the disconnect call is the step to take; disconnect
\* is never called twice, and no client call follows it. When main raised, no message URL is printed and no report line is in
\* the sink. A message URL is printed and a report line is in the sink only
\* when main returned and the disconnect has returned, as the last client call;
\* and a run that ends well has printed every URL of the result and written
\* the report to a configured sink.
C15_SessionLifecycle ==
    SessionClosedOnce /\ OutputAfterSuccess

\* C15's case, main returning: the session was closed, then the URL printed
\* and the sink written.
C15_Witness ==
    /\ pc = "done"
    /\ Count("ret", "disconnect") = 1
    /\ Len(UrlLines(stdout)) = 1
    /\ SinkConfigured
    /\ Len(sink) >= 4

\* C15's case, main failing: send_file raised, the session was closed, nothing
\* was printed or written.
C15_WitnessFailed ==
    /\ pc = "raised"
    /\ Count("err", "send_file") = 1
    /\ Count("ret", "disconnect") = 1
    /\ UrlLines(stdout) = <<>>
    /\ SinkConfigured
    /\ Len(sink) <= 1

====
